---- MODULE Spec2Model ----
(***************************************************************************)
(* Model of the chat engine of ao-chat-client (src/src/chat.rs):           *)
(* ChatState (identity cache, pending lookups, channel registry), the      *)
(* commands that run as spawned tasks on a multi-threaded runtime          *)
(* (#[tokio::main], src/src/main.rs:56) and the select! loop of chat_task. *)
(* Every acquisition of one of ChatState's RwLocks is one atomic step; a   *)
(* spawned task and the loop interleave between two such steps.            *)
(***************************************************************************)
EXTENDS Integers, Sequences, FiniteSets, TLC

\* ------------------------------------------------------------------ bounds
\* Commands the UI sends during a run (one spawned task each).
MaxTasks == 2
\* Packets the socket delivers during a run.
MaxPackets == 3
\* State queries the UI sends during a run.
MaxQueries == 2

\* Character ids and names the server may talk about.
Ids == {1, 2}
Names == {"Ann", "Bob"}
GroupIds == {1}
GroupNames == {"Clan"}
Seeds == {"S1", "S2"}
Texts == {"hi"}

\* The configuration handed to chat_task.
UserName == "acct"
Password == "pw"
CharName == "Ann"

\* Option::None of a name, of a message sender, of a lookup result.
NoName == ""
NoSender == -1
NoId == 0

Tasks == 1..MaxTasks

\* ------------------------------------------------------- nadylib's models
Group(id, name) == [tag |-> "Group", id |-> id, name |-> name]
PrivateChannel(id) == [tag |-> "PrivateChannel", id |-> id, name |-> NoName]
Tell(id) == [tag |-> "Tell", id |-> id, name |-> NoName]
Vicinity == [tag |-> "Vicinity", id |-> 0, name |-> NoName]

Message(sender, channel, text) ==
    [sender |-> sender, channel |-> channel, text |-> text]

\* ----------------------------------------------------------- BiHashMap
\* bimap::BiHashMap<u32, String> as a set of <<id, name>> pairs.
GetByLeft(m, id) == {p[2] : p \in {q \in m : q[1] = id}}
GetByRight(m, name) == {p[1] : p \in {q \in m : q[2] = name}}
HasLeft(m, id) == GetByLeft(m, id) # {}
HasRight(m, name) == GetByRight(m, name) # {}
LeftName(m, id) == CHOOSE n \in GetByLeft(m, id) : TRUE
\* get_by_right(..).map(|i| *i): NoId stands for None.
RightId(m, name) == IF HasRight(m, name) THEN CHOOSE i \in GetByRight(m, name) : TRUE ELSE NoId

\* A faulty insert that keeps the pairs it collides with.
BiInsertKeepsOld(m, id, name) == m \cup {<<id, name>>}

\* BiHashMap::insert: the pairs sharing the left or the right value are
\* overwritten.
BiInsert(m, id, name) ==
    {p \in m : p[1] # id /\ p[2] # name} \cup {<<id, name>>}

IsBijection(m) ==
    \A p \in m, q \in m : (p[1] = q[1] \/ p[2] = q[2]) => p = q

\* ------------------------------------------------------- ResolvedChannel
RECURSIVE FirstGroupFrom(_, _, _)
\* The index of the first Group with id `gid` in `chs`, from index i on, as
\* find_map visits the registry; 0 if there is none.
FirstGroupFrom(chs, gid, i) ==
    IF i > Len(chs) THEN 0
    ELSE IF chs[i].tag = "Group" /\ chs[i].id = gid THEN i
    ELSE FirstGroupFrom(chs, gid, i + 1)

FirstGroupIndex(chs, gid) == FirstGroupFrom(chs, gid, 1)

\* Whether ResolvedChannel::new returns (TRUE) or panics on an unwrap (FALSE).
ChannelResolves(chs, cache, channel) ==
    CASE channel.tag = "Group" ->
            \/ channel.name # NoName
            \/ /\ FirstGroupIndex(chs, channel.id) # 0
               /\ chs[FirstGroupIndex(chs, channel.id)].name # NoName
      [] channel.tag \in {"PrivateChannel", "Tell"} -> HasLeft(cache, channel.id)
      [] OTHER -> TRUE

ResolvedChannelNew(chs, cache, channel) ==
    CASE channel.tag = "Group" ->
            [id |-> channel.id,
             name |-> IF channel.name # NoName THEN channel.name
                      ELSE chs[FirstGroupIndex(chs, channel.id)].name,
             type |-> "Group"]
      [] channel.tag = "PrivateChannel" ->
            [id |-> channel.id, name |-> LeftName(cache, channel.id),
             type |-> "PrivateChannel"]
      [] channel.tag = "Tell" ->
            [id |-> channel.id, name |-> LeftName(cache, channel.id),
             type |-> "Tell"]
      [] OTHER -> [id |-> 0, name |-> "Vicinity", type |-> "Vicinity"]

\* ------------------------------------------------------- ResolvedMessage
SenderResolves(cache, message) ==
    message.sender = NoSender \/ HasLeft(cache, message.sender)

MessageResolves(chs, cache, message) ==
    /\ SenderResolves(cache, message)
    /\ ChannelResolves(chs, cache, message.channel)

ResolvedMessageNew(chs, cache, message) ==
    [sender |-> IF message.sender = NoSender THEN NoName
                ELSE LeftName(cache, message.sender),
     channel |-> ResolvedChannelNew(chs, cache, message.channel),
     text |-> message.text]

\* ------------------------------------------------------------------ state
VARIABLES
    channels,         \* ChatState.channels: the channel registry
    past_invites,     \* ChatState.past_invites
    user_lookup,      \* ChatState.user_lookup: the identity cache
    current_user,     \* ChatState.current_user
    pending_lookups,  \* ChatState.pending_lookups: name -> the Notify installed
                      \* (named by the task that created it), 0 if none
    ui_updates,       \* what was sent on ui_update_sender
    outbound,         \* the packets handed to the socket's send
    lpc,              \* where chat_task's loop stands
    packet,           \* the packet read_packet returned, while it is handled
    nread,            \* packets read so far
    tasks,            \* the spawned command tasks
    hist,             \* history, per name: what the lookup results so far were
    delivered,        \* history: the (id, name) pairs identity events carried
    replies           \* what was sent on the oneshot senders of the queries

vars == <<channels, past_invites, user_lookup, current_user, pending_lookups,
          ui_updates, outbound, lpc, packet, nread, tasks, hist, delivered,
          replies>>

shared == <<channels, past_invites, user_lookup, current_user, pending_lookups>>

NoPacket == [type |-> "None"]

\* No ResolvedChannel argument, no Channel chosen yet.
NoChannel == [tag |-> "None", id |-> 0, name |-> NoName]

IdleTask ==
    [kind |-> "none", user |-> NoName, text |-> NoName, pc |-> "idle",
     notify |-> 0, res |-> NoId, me |-> NoSender, sender |-> NoName,
     cname |-> NoName, chan |-> NoChannel, target |-> NoChannel]

\* ChatState::new and the state chat_task starts its loop in.
Init ==
    /\ channels = <<>>
    /\ past_invites = <<>>
    /\ user_lookup = {}
    /\ current_user = 0
    /\ pending_lookups = [n \in Names |-> 0]
    /\ ui_updates = <<>>
    /\ outbound = <<>>
    /\ lpc = "select"
    /\ packet = NoPacket
    /\ nread = 0
    /\ tasks = [t \in Tasks |-> IdleTask]
    /\ hist = [n \in Names |-> "none"]
    /\ delivered = {}
    /\ replies = <<>>

\* ------------------------------------------------------------ the packets
CharEntries == Ids \X Names
CharLists == {<<>>} \cup {<<e>> : e \in CharEntries}
                \cup {<<e, f>> : e \in CharEntries, f \in CharEntries}

Packets ==
    {[type |-> "LoginSeed", seed |-> s] : s \in Seeds}
    \cup {[type |-> "LoginCharlist", chars |-> c] : c \in CharLists}
    \cup {[type |-> "LoginError"]}
    \cup {[type |-> "ClientName", id |-> i, name |-> n] : i \in Ids, n \in Names}
    \cup {[type |-> "ClientLookup", id |-> i, name |-> n, exists |-> TRUE] :
             i \in Ids, n \in Names}
    \cup {[type |-> "ClientLookup", id |-> NoId, name |-> n, exists |-> FALSE] :
             n \in Names}
    \cup {[type |-> "GroupAnnounce", channel |-> Group(g, n)] :
             g \in GroupIds, n \in GroupNames \cup {NoName}}
    \cup {[type |-> "GroupMessage", message |-> Message(i, Group(g, NoName), x)] :
             i \in Ids, g \in GroupIds, x \in Texts}
    \cup {[type |-> "MsgPrivate", message |-> Message(i, Tell(i), x)] :
             i \in Ids, x \in Texts}
    \cup {[type |-> "MsgVicinity", message |-> Message(i, Vicinity, x)] :
             i \in Ids \cup {NoSender}, x \in Texts}
    \cup {[type |-> "PrivgrpMessage", message |-> Message(i, PrivateChannel(j), x)] :
             i \in Ids, j \in Ids, x \in Texts}
    \cup {[type |-> "PrivgrpInvite", channel |-> PrivateChannel(j)] : j \in Ids}
    \cup {[type |-> "Other"]}

\* sock.read_packet() returns Ok(packet), one of the packets `from`.
ReadPacket(from) ==
    /\ lpc = "select"
    /\ nread < MaxPackets
    /\ \E p \in from : packet' = p
    /\ lpc' = "handle"
    /\ nread' = nread + 1
    /\ UNCHANGED <<shared, ui_updates, outbound, tasks, hist, delivered, replies>>

\* sock.read_packet() returns Err: the loop breaks and chat_task returns Ok.
ReadError ==
    /\ lpc = "select"
    /\ lpc' = "ended"
    /\ UNCHANGED <<shared, ui_updates, outbound, packet, nread, tasks, hist, delivered, replies>>

Handling(type) == lpc = "handle" /\ packet.type = type

\* The match arm is over: back to select!.
NextIteration == lpc' = "select" /\ packet' = NoPacket

\* A faulty arm that also removes the pending lookup of the announced name
\* and wakes its waiters.
HandleClientNameWakes ==
    /\ Handling("ClientName")
    /\ user_lookup' = BiInsert(user_lookup, packet.id, packet.name)
    /\ delivered' = delivered \cup {<<packet.id, packet.name>>}
    /\ pending_lookups' = [pending_lookups EXCEPT ![packet.name] = 0]
    /\ tasks' = [t \in Tasks |->
                    IF tasks[t].pc = "l_wait" /\ tasks[t].user = packet.name
                    THEN [tasks[t] EXCEPT !.pc = "l_recheck"]
                    ELSE tasks[t]]
    /\ lpc' = "select" /\ packet' = [type |-> "None"]
    /\ UNCHANGED <<channels, past_invites, current_user,
                   ui_updates, outbound, nread, hist, replies>>

\* ReceivedPacket::ClientName
HandleClientName ==
    /\ Handling("ClientName")
    /\ user_lookup' = BiInsert(user_lookup, packet.id, packet.name)
    /\ delivered' = delivered \cup {<<packet.id, packet.name>>}
    /\ NextIteration
    /\ UNCHANGED <<channels, past_invites, current_user, pending_lookups,
                   ui_updates, outbound, nread, tasks, hist, replies>>

\* A faulty arm that goes on to the push and the notify without the write.
HandleClientLookupFoundSkipsInsert ==
    /\ Handling("ClientLookup")
    /\ packet.exists
    /\ delivered' = delivered \cup {<<packet.id, packet.name>>}
    /\ lpc' = "cl_push"
    /\ UNCHANGED <<channels, past_invites, user_lookup, current_user, pending_lookups,
                   ui_updates, outbound, packet, nread, tasks, hist, replies>>

\* ReceivedPacket::ClientLookup with exists: the write of user_lookup.
HandleClientLookupFound ==
    /\ Handling("ClientLookup")
    /\ packet.exists
    /\ user_lookup' = BiInsert(user_lookup, packet.id, packet.name)
    /\ delivered' = delivered \cup {<<packet.id, packet.name>>}
    /\ lpc' = "cl_push"
    /\ UNCHANGED <<channels, past_invites, current_user, pending_lookups,
                   ui_updates, outbound, packet, nread, tasks, hist, replies>>

\* A faulty push that is skipped when the Tell is registered already.
ClientLookupPushOnce ==
    /\ lpc = "cl_push"
    /\ channels' = IF \E i \in 1..Len(channels) : channels[i] = Tell(packet.id)
                   THEN channels
                   ELSE Append(channels, Tell(packet.id))
    /\ lpc' = "cl_notify"
    /\ UNCHANGED <<past_invites, user_lookup, current_user, pending_lookups,
                   ui_updates, outbound, packet, nread, tasks, hist, delivered, replies>>

\* ReceivedPacket::ClientLookup with exists: the push of Channel::Tell.
ClientLookupPush ==
    /\ lpc = "cl_push"
    /\ channels' = Append(channels, Tell(packet.id))
    /\ lpc' = "cl_notify"
    /\ UNCHANGED <<past_invites, user_lookup, current_user, pending_lookups,
                   ui_updates, outbound, packet, nread, tasks, hist, delivered, replies>>

\* Notify::notify_waiters on the Notify of task `n`: the tasks whose Notified
\* future exists are woken, the others are not.
NotifyWaitersAll(ts, n) ==
    [t \in Tasks |->
        IF ts[t].pc = "l_wait"
        THEN [ts[t] EXCEPT !.pc = "l_recheck"]
        ELSE ts[t]]

NotifyWaiters(ts, n) ==
    [t \in Tasks |->
        IF ts[t].pc = "l_wait" /\ ts[t].notify = n
        THEN [ts[t] EXCEPT !.pc = "l_recheck"]
        ELSE ts[t]]

\* A faulty removal that leaves the entry installed.
PendingKept(pl, name) == pl

\* pending_lookups.write().unwrap().remove(&name)
PendingRemoved(pl, name) == [pl EXCEPT ![name] = 0]

\* What a lookup result for `name` makes of the history of `name`.
HistAfterResult(ts, name, exists) ==
    IF exists THEN "found"
    ELSE IF \E t \in Tasks : ts[t].user = name /\
              ts[t].pc \in {"l_pend", "l_install", "l_send", "l_reg", "l_wait"}
         THEN "nfMany" ELSE "nf0"

\* The remove of the pending lookup and notify_waiters, under the write lock.
RemoveAndNotify ==
    /\ pending_lookups' = PendingRemoved(pending_lookups, packet.name)
    /\ tasks' = IF pending_lookups[packet.name] # 0
                THEN NotifyWaiters(tasks, pending_lookups[packet.name])
                ELSE tasks
    /\ hist' = [hist EXCEPT ![packet.name] = HistAfterResult(tasks', packet.name, packet.exists)]
    /\ NextIteration

\* ReceivedPacket::ClientLookup with exists, last step.
ClientLookupNotify ==
    /\ lpc = "cl_notify"
    /\ RemoveAndNotify
    /\ UNCHANGED <<channels, past_invites, user_lookup, current_user,
                   ui_updates, outbound, nread, delivered, replies>>

\* A faulty arm that registers the Tell channel outside `if c.exists`.
HandleClientLookupNotFoundPushes ==
    /\ Handling("ClientLookup")
    /\ ~packet.exists
    /\ channels' = Append(channels, Tell(packet.id))
    /\ RemoveAndNotify
    /\ UNCHANGED <<past_invites, user_lookup, current_user,
                   ui_updates, outbound, nread, delivered, replies>>

\* ReceivedPacket::ClientLookup without exists.
HandleClientLookupNotFound ==
    /\ Handling("ClientLookup")
    /\ ~packet.exists
    /\ RemoveAndNotify
    /\ UNCHANGED <<channels, past_invites, user_lookup, current_user,
                   ui_updates, outbound, nread, delivered, replies>>

\* ------------------------------------------------------- command tasks
\* The ResolvedChannel values the UI holds: the Vicinity it starts with and the
\* descriptors of Group, PrivateChannel and Tell channels (send_message reads
\* their type and id only).
ResolvedChannels ==
    {[tag |-> "Vicinity", id |-> 0, name |-> NoName]}
    \cup {[tag |-> "Group", id |-> g, name |-> NoName] : g \in GroupIds}
    \cup {[tag |-> k, id |-> i, name |-> NoName] : k \in {"PrivateChannel", "Tell"}, i \in Ids}

Commands ==
    {[kind |-> k, user |-> n, text |-> NoName, chan |-> NoChannel] :
        k \in {"invite", "kick", "leave"}, n \in Names}
    \cup {[kind |-> "tell", user |-> n, text |-> x, chan |-> NoChannel] :
        n \in Names, x \in Texts}
    \cup {[kind |-> "message", user |-> NoName, text |-> x, chan |-> c] :
        c \in ResolvedChannels, x \in Texts}

\* A faulty handling that runs the command inside the loop: the loop awaits
\* the command.
SpawnCommandInline(from) ==
    /\ lpc = "select"
    /\ lpc' = "await_command"
    /\ \E t \in Tasks, c \in from :
        /\ tasks[t].pc = "idle"
        /\ tasks' = [tasks EXCEPT ![t] =
               [IdleTask EXCEPT !.kind = c.kind, !.user = c.user, !.text = c.text,
                                !.chan = c.chan, !.pc = "start"]]
    /\ UNCHANGED <<shared, ui_updates, outbound, packet, nread, hist, delivered, replies>>

\* command_receiver.recv() returns a command, one of `from`: the loop spawns
\* its task.
SpawnCommand(from) ==
    /\ lpc = "select"
    /\ \E t \in Tasks, c \in from :
        /\ tasks[t].pc = "idle"
        /\ \A u \in Tasks : u < t => tasks[u].pc # "idle"
        /\ tasks' = [tasks EXCEPT ![t] =
               [IdleTask EXCEPT !.kind = c.kind, !.user = c.user, !.text = c.text,
                                !.chan = c.chan,
                                !.pc = IF c.kind = "message" THEN "m_chan" ELSE "start"]]
    /\ UNCHANGED <<shared, ui_updates, outbound, lpc, packet, nread, hist, delivered, replies>>

\* What a resolve(name) that starts makes of the history of `name`.
HistAfterStart(h) ==
    CASE h = "nf0" -> "nf1"
      [] h = "nf1" -> "nfMany"
      [] OTHER -> h

\* A faulty continuation that goes on to build and send whatever `res` is.
AfterLookupProceeds(task, res) ==
    [task EXCEPT !.pc = IF task.kind = "tell" THEN "b_load" ELSE "b_send",
                 !.res = res, !.notify = 0]

\* Where a command goes on once lookup_user returned `res`.
AfterLookup(task, res) ==
    IF res = NoId THEN [task EXCEPT !.pc = "done", !.res = NoId, !.notify = 0]
    ELSE [task EXCEPT !.pc = IF task.kind = "tell" THEN "b_load" ELSE "b_send",
                      !.res = res, !.notify = 0]

\* lookup_user: user_lookup.read().get_by_right(&user)
LookupCache(t) ==
    /\ tasks[t].pc = "start"
    /\ LET name == tasks[t].user
           id == RightId(user_lookup, name)
       IN  /\ tasks' = [tasks EXCEPT ![t] =
                  IF id # NoId THEN AfterLookup(@, id) ELSE [@ EXCEPT !.pc = "l_pend"]]
           /\ hist' = IF id # NoId THEN hist
                      ELSE [hist EXCEPT ![name] = HistAfterStart(@)]
    /\ UNCHANGED <<shared, ui_updates, outbound, lpc, packet, nread, delivered, replies>>

\* lookup_user: pending_lookups.read().get(&user)
LookupPending(t) ==
    /\ tasks[t].pc = "l_pend"
    /\ LET n == pending_lookups[tasks[t].user]
       IN  tasks' = [tasks EXCEPT ![t] =
               IF n # 0 THEN [@ EXCEPT !.pc = "l_reg", !.notify = n]
               ELSE [@ EXCEPT !.pc = "l_install"]]
    /\ UNCHANGED <<shared, ui_updates, outbound, lpc, packet, nread, hist, delivered, replies>>

\* lookup_user: pending_lookups.write().insert(user, Arc::new(Notify::new()))
LookupInstall(t) ==
    /\ tasks[t].pc = "l_install"
    /\ pending_lookups' = [pending_lookups EXCEPT ![tasks[t].user] = t]
    /\ tasks' = [tasks EXCEPT ![t] = [@ EXCEPT !.pc = "l_send", !.notify = t]]
    /\ UNCHANGED <<channels, past_invites, user_lookup, current_user,
                   ui_updates, outbound, lpc, packet, nread, hist, delivered, replies>>

\* lookup_user: let _ = self.sender.send(ClientLookupPacket).await
LookupSend(t) ==
    /\ tasks[t].pc = "l_send"
    /\ outbound' = Append(outbound, [type |-> "ClientLookup", name |-> tasks[t].user])
    /\ tasks' = [tasks EXCEPT ![t] = [@ EXCEPT !.pc = "l_reg"]]
    /\ UNCHANGED <<shared, ui_updates, lpc, packet, nread, hist, delivered, replies>>

\* lookup_user: notify.notified() creates the Notified future; from here on
\* notify_waiters wakes this task.
LookupRegister(t) ==
    /\ tasks[t].pc = "l_reg"
    /\ tasks' = [tasks EXCEPT ![t] = [@ EXCEPT !.pc = "l_wait"]]
    /\ UNCHANGED <<shared, ui_updates, outbound, lpc, packet, nread, hist, delivered, replies>>

\* lookup_user, woken: user_lookup.read().get_by_right(&user)
LookupRecheck(t) ==
    /\ tasks[t].pc = "l_recheck"
    /\ tasks' = [tasks EXCEPT ![t] = AfterLookup(@, RightId(user_lookup, @.user))]
    /\ UNCHANGED <<shared, ui_updates, outbound, lpc, packet, nread, hist, delivered, replies>>

\* A faulty packet choice: every command sends the invite packet.
CommandPacketAsInvite(task) == [type |-> "PrivgrpInvite", id |-> task.res]

\* invite, kick, leave: the packet keyed by the resolved id.
CommandPacket(task) ==
    CASE task.kind = "invite" -> [type |-> "PrivgrpInvite", id |-> task.res]
      [] task.kind = "kick" -> [type |-> "PrivgrpKick", id |-> task.res]
      [] task.kind = "leave" -> [type |-> "PrivgrpPart", channel |-> PrivateChannel(task.res)]
      [] OTHER -> [type |-> "MsgPrivate",
                   message |-> Message(task.me, Tell(task.res), task.text)]

\* invite, kick, leave: let _ = self.sender.send(packet).await
CommandSend(t) ==
    /\ tasks[t].pc = "b_send"
    /\ tasks[t].kind \in {"invite", "kick", "leave"}
    /\ outbound' = Append(outbound, CommandPacket(tasks[t]))
    /\ tasks' = [tasks EXCEPT ![t] = [@ EXCEPT !.pc = "done"]]
    /\ UNCHANGED <<shared, ui_updates, lpc, packet, nread, hist, delivered, replies>>

\* send_tell: sender: Some(self.current_user.load(Ordering::Relaxed))
TellLoadUser(t) ==
    /\ tasks[t].pc = "b_load"
    /\ tasks' = [tasks EXCEPT ![t] = [@ EXCEPT !.pc = "b_sender", !.me = current_user]]
    /\ UNCHANGED <<shared, ui_updates, outbound, lpc, packet, nread, hist, delivered, replies>>

\* A faulty resolution that goes on without a sender name when the id is not
\* cached.
TellResolveSenderLax(t) ==
    /\ tasks[t].pc = "b_sender"
    /\ tasks' = [tasks EXCEPT ![t] =
           IF HasLeft(user_lookup, tasks[t].me)
           THEN [@ EXCEPT !.pc = "b_chan", !.sender = LeftName(user_lookup, tasks[t].me)]
           ELSE [@ EXCEPT !.pc = "b_chan"]]
    /\ UNCHANGED <<shared, ui_updates, outbound, lpc, packet, nread, hist, delivered, replies>>

\* send_tell, ResolvedMessage::new: user_lookup.read().get_by_left(&sender).unwrap()
TellResolveSender(t) ==
    /\ tasks[t].pc = "b_sender"
    /\ tasks' = [tasks EXCEPT ![t] =
           IF HasLeft(user_lookup, tasks[t].me)
           THEN [@ EXCEPT !.pc = "b_chan", !.sender = LeftName(user_lookup, tasks[t].me)]
           ELSE [@ EXCEPT !.pc = "panicked"]]
    /\ UNCHANGED <<shared, ui_updates, outbound, lpc, packet, nread, hist, delivered, replies>>

\* send_tell, ResolvedChannel::new of Channel::Tell(id):
\* user_lookup.read().get_by_left(&id).unwrap()
TellResolveChannel(t) ==
    /\ tasks[t].pc = "b_chan"
    /\ tasks' = [tasks EXCEPT ![t] =
           IF HasLeft(user_lookup, tasks[t].res)
           THEN [@ EXCEPT !.pc = "b_ui", !.cname = LeftName(user_lookup, tasks[t].res)]
           ELSE [@ EXCEPT !.pc = "panicked"]]
    /\ UNCHANGED <<shared, ui_updates, outbound, lpc, packet, nread, hist, delivered, replies>>

\* The self-echo send_tell built for its message.
TellEcho(task) ==
    [sender |-> task.sender,
     channel |-> [id |-> task.res, name |-> task.cname, type |-> "Tell"],
     text |-> task.text]

\* send_tell: let _ = self.ui_update_sender.send(UiUpdate::Message(resolved))
TellUiUpdate(t) ==
    /\ tasks[t].pc = "b_ui"
    /\ ui_updates' = Append(ui_updates, TellEcho(tasks[t]))
    /\ tasks' = [tasks EXCEPT ![t] = [@ EXCEPT !.pc = "b_check"]]
    /\ UNCHANGED <<shared, outbound, lpc, packet, nread, hist, delivered, replies>>

\* channels.read().iter().any(|channel| matches Channel::Tell(id))
HasTell(chs, id) == \E i \in 1..Len(chs) : chs[i] = Tell(id)

\* send_tell: the check of the registry, under the read lock.
TellCheckChannel(t) ==
    /\ tasks[t].pc = "b_check"
    /\ tasks' = [tasks EXCEPT ![t] =
           [@ EXCEPT !.pc = IF HasTell(channels, tasks[t].res) THEN "b_send" ELSE "b_push"]]
    /\ UNCHANGED <<shared, ui_updates, outbound, lpc, packet, nread, hist, delivered, replies>>

\* send_tell: channels.write().unwrap().push(message.channel.clone())
TellPushChannel(t) ==
    /\ tasks[t].pc = "b_push"
    /\ channels' = Append(channels, Tell(tasks[t].res))
    /\ tasks' = [tasks EXCEPT ![t] = [@ EXCEPT !.pc = "b_send"]]
    /\ UNCHANGED <<past_invites, user_lookup, current_user, pending_lookups,
                   ui_updates, outbound, lpc, packet, nread, hist, delivered, replies>>

\* send_tell: let _ = self.sender.send(MsgPrivatePacket { message }).await
TellSend(t) ==
    /\ tasks[t].pc = "b_send"
    /\ tasks[t].kind = "tell"
    /\ outbound' = Append(outbound, CommandPacket(tasks[t]))
    /\ tasks' = [tasks EXCEPT ![t] = [@ EXCEPT !.pc = "done"]]
    /\ UNCHANGED <<shared, ui_updates, lpc, packet, nread, hist, delivered, replies>>

\* ------------------------------------------------------- send_message
\* send_message: the Channel of the ResolvedChannel argument; a Group is looked
\* up in the registry by id, find(..).unwrap().
MessageChannel(t) ==
    /\ tasks[t].pc = "m_chan"
    /\ LET c == tasks[t].chan
           i == FirstGroupIndex(channels, c.id)
       IN  tasks' = [tasks EXCEPT ![t] =
               CASE c.tag = "Vicinity" -> [@ EXCEPT !.pc = "m_load", !.target = Vicinity]
                 [] c.tag = "Tell" -> [@ EXCEPT !.pc = "m_load", !.target = Tell(c.id)]
                 [] c.tag = "PrivateChannel" ->
                        [@ EXCEPT !.pc = "m_load", !.target = PrivateChannel(c.id)]
                 [] OTHER -> IF i = 0 THEN [@ EXCEPT !.pc = "panicked"]
                             ELSE [@ EXCEPT !.pc = "m_load", !.target = channels[i]]]
    /\ UNCHANGED <<shared, ui_updates, outbound, lpc, packet, nread, hist, delivered, replies>>

\* Where send_message goes on its message's channel: Vicinity is
\* panic!("impossible").
MessageDispatch(target) ==
    CASE target.tag = "Vicinity" -> "panicked"
      [] target.tag = "Tell" -> "m_sender"
      [] OTHER -> "m_send"

\* send_message: sender: Some(self.current_user.load(Ordering::Relaxed)), and
\* the match on message.channel.
MessageLoadUser(t) ==
    /\ tasks[t].pc = "m_load"
    /\ tasks' = [tasks EXCEPT ![t] =
           [@ EXCEPT !.me = current_user, !.pc = MessageDispatch(tasks[t].target)]]
    /\ UNCHANGED <<shared, ui_updates, outbound, lpc, packet, nread, hist, delivered, replies>>

\* send_message to a Tell, ResolvedMessage::new: the sender's name, unwrapped.
MessageResolveSender(t) ==
    /\ tasks[t].pc = "m_sender"
    /\ tasks' = [tasks EXCEPT ![t] =
           IF HasLeft(user_lookup, tasks[t].me)
           THEN [@ EXCEPT !.pc = "m_rchan", !.sender = LeftName(user_lookup, tasks[t].me)]
           ELSE [@ EXCEPT !.pc = "panicked"]]
    /\ UNCHANGED <<shared, ui_updates, outbound, lpc, packet, nread, hist, delivered, replies>>

\* send_message to a Tell, ResolvedChannel::new: the peer's name, unwrapped.
MessageResolveChannel(t) ==
    /\ tasks[t].pc = "m_rchan"
    /\ tasks' = [tasks EXCEPT ![t] =
           IF HasLeft(user_lookup, tasks[t].target.id)
           THEN [@ EXCEPT !.pc = "m_ui", !.cname = LeftName(user_lookup, tasks[t].target.id)]
           ELSE [@ EXCEPT !.pc = "panicked"]]
    /\ UNCHANGED <<shared, ui_updates, outbound, lpc, packet, nread, hist, delivered, replies>>

\* The self-echo send_message built for its message to a Tell.
MessageEcho(task) ==
    [sender |-> task.sender,
     channel |-> [id |-> task.target.id, name |-> task.cname, type |-> "Tell"],
     text |-> task.text]

\* send_message to a Tell: let _ = self.ui_update_sender.send(..)
MessageUiUpdate(t) ==
    /\ tasks[t].pc = "m_ui"
    /\ ui_updates' = Append(ui_updates, MessageEcho(tasks[t]))
    /\ tasks' = [tasks EXCEPT ![t] = [@ EXCEPT !.pc = "m_send"]]
    /\ UNCHANGED <<shared, outbound, lpc, packet, nread, hist, delivered, replies>>

\* GroupMessagePacket, MsgPrivatePacket or PrivgrpMessagePacket.
MessagePacket(task) ==
    [type |-> CASE task.target.tag = "Group" -> "GroupMessage"
                [] task.target.tag = "Tell" -> "MsgPrivate"
                [] OTHER -> "PrivgrpMessage",
     message |-> Message(task.me, task.target, task.text)]

\* send_message: self.sender.send(packet).await.unwrap(): the task goes on
\* when the send returned Ok and panics when it returned Err.
MessageSend(t) ==
    /\ tasks[t].pc = "m_send"
    /\ outbound' = Append(outbound, MessagePacket(tasks[t]))
    /\ \E ok \in BOOLEAN :
          tasks' = [tasks EXCEPT ![t] =
              [@ EXCEPT !.pc = IF ok THEN "done" ELSE "send_panicked"]]
    /\ UNCHANGED <<shared, ui_updates, lpc, packet, nread, hist, delivered, replies>>

\* ------------------------------------------------- the loop: login packets
RECURSIVE FindCharacterFrom(_, _, _)
\* c.characters.iter().find(|i| i.name == char_name): the index of the first
\* entry with that name, 0 if there is none.
FindCharacterFrom(chars, name, i) ==
    IF i > Len(chars) THEN 0
    ELSE IF chars[i][2] = name THEN i
    ELSE FindCharacterFrom(chars, name, i + 1)

\* A faulty find that takes the first entry whatever its name.
FindCharacterAny(chars, name) == IF Len(chars) > 0 THEN 1 ELSE 0

FindCharacter(chars, name) == FindCharacterFrom(chars, name, 1)

\* ReceivedPacket::LoginSeed: sock.login(&username, &password, &seed).await?
HandleLoginSeed ==
    /\ Handling("LoginSeed")
    /\ outbound' = Append(outbound,
           [type |-> "LoginRequest", user |-> UserName, pass |-> Password,
            seed |-> packet.seed])
    /\ \/ NextIteration
       \/ lpc' = "failed" /\ packet' = NoPacket
    /\ UNCHANGED <<shared, ui_updates, nread, tasks, hist, delivered, replies>>

\* ReceivedPacket::LoginCharlist
HandleLoginCharlist ==
    /\ Handling("LoginCharlist")
    /\ LET i == FindCharacter(packet.chars, CharName)
       IN  IF i = 0
           THEN /\ lpc' = "panicked"
                /\ packet' = NoPacket
                /\ UNCHANGED <<current_user, outbound>>
           ELSE /\ current_user' = packet.chars[i][1]
                /\ outbound' = Append(outbound,
                       [type |-> "LoginSelect", id |-> packet.chars[i][1]])
                /\ \/ NextIteration
                   \/ lpc' = "failed" /\ packet' = NoPacket
    /\ UNCHANGED <<channels, past_invites, user_lookup, pending_lookups,
                   ui_updates, nread, tasks, hist, delivered, replies>>

\* ReceivedPacket::LoginError: panic!
HandleLoginError ==
    /\ Handling("LoginError")
    /\ lpc' = "panicked"
    /\ packet' = NoPacket
    /\ UNCHANGED <<shared, ui_updates, outbound, nread, tasks, hist, delivered, replies>>

\* ----------------------------------------------- the loop: channel packets
\* A faulty announcement that replaces the registered Group of the same id.
HandleGroupAnnounceReplaces ==
    /\ Handling("GroupAnnounce")
    /\ channels' = Append(SelectSeq(channels,
                        LAMBDA c : ~(c.tag = "Group" /\ c.id = packet.channel.id)),
                    packet.channel)
    /\ NextIteration
    /\ UNCHANGED <<past_invites, user_lookup, current_user, pending_lookups,
                   ui_updates, outbound, nread, tasks, hist, delivered, replies>>

\* ReceivedPacket::GroupAnnounce
HandleGroupAnnounce ==
    /\ Handling("GroupAnnounce")
    /\ channels' = Append(channels, packet.channel)
    /\ NextIteration
    /\ UNCHANGED <<past_invites, user_lookup, current_user, pending_lookups,
                   ui_updates, outbound, nread, tasks, hist, delivered, replies>>

\* ReceivedPacket::GroupMessage: ResolvedMessage::new, then the UI update.
HandleGroupMessage ==
    /\ Handling("GroupMessage")
    /\ IF MessageResolves(channels, user_lookup, packet.message)
       THEN /\ ui_updates' = Append(ui_updates,
                   ResolvedMessageNew(channels, user_lookup, packet.message))
            /\ NextIteration
       ELSE /\ lpc' = "panicked"
            /\ packet' = NoPacket
            /\ UNCHANGED ui_updates
    /\ UNCHANGED <<shared, outbound, nread, tasks, hist, delivered, replies>>

\* ReceivedPacket::MsgPrivate: ResolvedMessage::new, then the UI update.
HandleMsgPrivate ==
    /\ Handling("MsgPrivate")
    /\ IF MessageResolves(channels, user_lookup, packet.message)
       THEN /\ ui_updates' = Append(ui_updates,
                   ResolvedMessageNew(channels, user_lookup, packet.message))
            /\ lpc' = "mp_check"
            /\ UNCHANGED packet
       ELSE /\ lpc' = "panicked"
            /\ packet' = NoPacket
            /\ UNCHANGED ui_updates
    /\ UNCHANGED <<shared, outbound, nread, tasks, hist, delivered, replies>>

\* ReceivedPacket::MsgPrivate: the check of the registry, under the read lock.
MsgPrivateCheck ==
    /\ lpc = "mp_check"
    /\ IF HasTell(channels, packet.message.channel.id)
       THEN NextIteration
       ELSE lpc' = "mp_push" /\ UNCHANGED packet
    /\ UNCHANGED <<shared, ui_updates, outbound, nread, tasks, hist, delivered, replies>>

\* ReceivedPacket::MsgPrivate: channels.write().unwrap().push(m.message.channel)
MsgPrivatePush ==
    /\ lpc = "mp_push"
    /\ channels' = Append(channels, packet.message.channel)
    /\ NextIteration
    /\ UNCHANGED <<past_invites, user_lookup, current_user, pending_lookups,
                   ui_updates, outbound, nread, tasks, hist, delivered, replies>>

\* A faulty panic that is caught: the loop goes on with the next event.
LoopPanicSkipped == NextIteration

\* A panic inside chat_task (an unwrap of None): the task of the loop ends,
\* on the event it was handling.
LoopPanic == lpc' = "panicked" /\ UNCHANGED packet

\* ReceivedPacket::MsgVicinity and MsgVicinitya: ResolvedMessage::new, then
\* the UI update.
HandleMsgVicinity ==
    /\ Handling("MsgVicinity")
    /\ IF MessageResolves(channels, user_lookup, packet.message)
       THEN /\ ui_updates' = Append(ui_updates,
                   ResolvedMessageNew(channels, user_lookup, packet.message))
            /\ NextIteration
       ELSE /\ LoopPanic
            /\ UNCHANGED ui_updates
    /\ UNCHANGED <<shared, outbound, nread, tasks, hist, delivered, replies>>

\* ReceivedPacket::PrivgrpMessage: ResolvedMessage::new, then the UI update.
HandlePrivgrpMessage ==
    /\ Handling("PrivgrpMessage")
    /\ IF MessageResolves(channels, user_lookup, packet.message)
       THEN /\ ui_updates' = Append(ui_updates,
                   ResolvedMessageNew(channels, user_lookup, packet.message))
            /\ NextIteration
       ELSE /\ LoopPanic
            /\ UNCHANGED ui_updates
    /\ UNCHANGED <<shared, outbound, nread, tasks, hist, delivered, replies>>

\* ReceivedPacket::PrivgrpInvite
HandlePrivgrpInvite ==
    /\ Handling("PrivgrpInvite")
    /\ past_invites' = Append(past_invites, packet.channel)
    /\ NextIteration
    /\ UNCHANGED <<channels, user_lookup, current_user, pending_lookups,
                   ui_updates, outbound, nread, tasks, hist, delivered, replies>>

\* ------------------------------------------------- the loop: state queries
\* state_query_receiver.recv() returns a query.
ReceiveQuery ==
    /\ lpc = "select"
    /\ Len(replies) < MaxQueries
    /\ lpc' = "query"
    /\ UNCHANGED <<shared, ui_updates, outbound, packet, nread, tasks, hist, delivered, replies>>

\* Whether ResolvedChannel::new returns for every channel of the registry.
AllChannelsResolve(chs, cache) ==
    \A i \in 1..Len(chs) : ChannelResolves(chs, cache, chs[i])

\* channels.iter().map(|channel| ResolvedChannel::new(..)).collect()
ResolvedChannelList(chs, cache) ==
    [i \in 1..Len(chs) |-> ResolvedChannelNew(chs, cache, chs[i])]

\* StateQuery::Channels: the registry is resolved under its read lock and the
\* list is sent on the query's oneshot sender.
HandleQuery ==
    /\ lpc = "query"
    /\ IF AllChannelsResolve(channels, user_lookup)
       THEN /\ replies' = Append(replies, ResolvedChannelList(channels, user_lookup))
            /\ lpc' = "select"
            /\ UNCHANGED packet
       ELSE /\ LoopPanic
            /\ UNCHANGED replies
    /\ UNCHANGED <<shared, ui_updates, outbound, nread, tasks, hist, delivered>>

\* ReceivedPacket::LoginOk, BuddyStatus, Ping, ...: nothing to do.
HandleOther ==
    /\ Handling("Other")
    /\ NextIteration
    /\ UNCHANGED <<shared, ui_updates, outbound, nread, tasks, hist, delivered, replies>>

\* ------------------------------------------------------- specifications
LookupStep(t) ==
    \/ LookupCache(t)
    \/ LookupPending(t)
    \/ LookupInstall(t)
    \/ LookupSend(t)
    \/ LookupRegister(t)
    \/ LookupRecheck(t)

TellStep(t) ==
    \/ TellLoadUser(t)
    \/ TellResolveSender(t)
    \/ TellResolveChannel(t)
    \/ TellUiUpdate(t)
    \/ TellCheckChannel(t)
    \/ TellPushChannel(t)
    \/ TellSend(t)

MessageStep(t) ==
    \/ MessageChannel(t)
    \/ MessageLoadUser(t)
    \/ MessageResolveSender(t)
    \/ MessageResolveChannel(t)
    \/ MessageUiUpdate(t)
    \/ MessageSend(t)

IdentityStep ==
    \/ HandleClientName
    \/ HandleClientLookupFound
    \/ ClientLookupPush
    \/ ClientLookupNotify
    \/ HandleClientLookupNotFound

PacketsOf(types) == {p \in Packets : p.type \in types}
CommandsOf(kinds) == {c \in Commands : c.kind \in kinds}

\* The whole engine.
Next ==
    \/ ReadPacket(Packets)
    \/ ReadError
    \/ HandleLoginSeed
    \/ HandleLoginCharlist
    \/ HandleLoginError
    \/ IdentityStep
    \/ HandleGroupAnnounce
    \/ HandleGroupMessage
    \/ HandleMsgPrivate
    \/ MsgPrivateCheck
    \/ MsgPrivatePush
    \/ HandleMsgVicinity
    \/ HandlePrivgrpMessage
    \/ HandlePrivgrpInvite
    \/ ReceiveQuery
    \/ HandleQuery
    \/ HandleOther
    \/ SpawnCommand(Commands)
    \/ \E t \in Tasks : LookupStep(t) \/ CommandSend(t) \/ TellStep(t) \/ MessageStep(t)

Spec == Init /\ [][Next]_vars

\* The engine with a server that sends identity packets only, and invite
\* commands.
NextIdentity ==
    \/ ReadPacket(PacketsOf({"ClientName", "ClientLookup"}))
    \/ ReadError
    \/ IdentityStep
    \/ SpawnCommand(CommandsOf({"invite"}))
    \/ \E t \in Tasks : LookupStep(t) \/ CommandSend(t)

SpecIdentity == Init /\ [][NextIdentity]_vars

\* The engine with a server that sends the character list, identity packets
\* and tells, and tell commands.
NextTell ==
    \/ ReadPacket(PacketsOf({"ClientName", "ClientLookup", "MsgPrivate"})
                    \cup {[type |-> "LoginCharlist", chars |-> <<<<1, CharName>>>>]})
    \/ HandleLoginCharlist
    \/ IdentityStep
    \/ HandleMsgPrivate
    \/ MsgPrivateCheck
    \/ MsgPrivatePush
    \/ SpawnCommand(CommandsOf({"tell"}))
    \/ \E t \in Tasks : LookupStep(t) \/ TellStep(t)

SpecTell == Init /\ [][NextTell]_vars

\* The engine with a server that sends group packets and identities.
NextGroups ==
    \/ ReadPacket(PacketsOf({"ClientName", "GroupAnnounce", "GroupMessage", "Other"}))
    \/ ReadError
    \/ HandleClientName
    \/ HandleGroupAnnounce
    \/ HandleGroupMessage
    \/ HandleOther

SpecGroups == Init /\ [][NextGroups]_vars

\* The engine during the login handshake.
NextLogin ==
    \/ ReadPacket(PacketsOf({"LoginSeed", "LoginCharlist", "LoginError", "ClientName", "Other"}))
    \/ ReadError
    \/ HandleLoginSeed
    \/ HandleLoginCharlist
    \/ HandleLoginError
    \/ HandleClientName
    \/ HandleOther

SpecLogin == Init /\ [][NextLogin]_vars

\* The engine with a server that sends identity packets only, and no command.
NextCache ==
    \/ ReadPacket(PacketsOf({"ClientName", "ClientLookup"}))
    \/ ReadError
    \/ IdentityStep

SpecCache == Init /\ [][NextCache]_vars

\* The engine with a server that sends lookup results only, and invite, kick
\* and leave commands, all about one name.
NextCommands ==
    \/ ReadPacket({p \in PacketsOf({"ClientLookup"}) : p.name = CharName})
    \/ HandleClientLookupFound
    \/ ClientLookupPush
    \/ ClientLookupNotify
    \/ HandleClientLookupNotFound
    \/ SpawnCommand({c \in CommandsOf({"invite", "kick", "leave"}) : c.user = CharName})
    \/ \E t \in Tasks : LookupStep(t) \/ CommandSend(t)

SpecCommands == Init /\ [][NextCommands]_vars

\* The engine after the seed, with a server that sends the character list,
\* identities and group announcements, and SendToChannel commands.
NextSend ==
    \/ ReadPacket(PacketsOf({"ClientName", "GroupAnnounce"})
                    \cup {[type |-> "LoginCharlist", chars |-> <<<<1, CharName>>>>]})
    \/ HandleLoginCharlist
    \/ HandleClientName
    \/ HandleGroupAnnounce
    \/ SpawnCommand(CommandsOf({"message"}))
    \/ \E t \in Tasks : MessageStep(t)

SpecSend == Init /\ [][NextSend]_vars

\* The engine with a server that sends identities, group announcements and
\* messages of the four kinds, and no command.
NextMessages ==
    \/ ReadPacket(PacketsOf({"ClientName", "GroupAnnounce", "MsgVicinity",
                             "GroupMessage", "MsgPrivate", "PrivgrpMessage"}))
    \/ ReadError
    \/ HandleClientName
    \/ HandleGroupAnnounce
    \/ HandleMsgVicinity
    \/ HandleGroupMessage
    \/ HandleMsgPrivate
    \/ MsgPrivateCheck
    \/ MsgPrivatePush
    \/ HandlePrivgrpMessage

SpecMessages == Init /\ [][NextMessages]_vars

\* The engine with the three sources of the loop: a server that sends lookup
\* results for one name and administrative packets, invite commands on that
\* name, and state queries.
NextLoop ==
    \/ ReadPacket({p \in PacketsOf({"ClientLookup"}) : p.name = CharName}
                    \cup PacketsOf({"Other"}))
    \/ HandleClientLookupFound
    \/ ClientLookupPush
    \/ ClientLookupNotify
    \/ HandleClientLookupNotFound
    \/ HandleOther
    \/ ReceiveQuery
    \/ HandleQuery
    \/ SpawnCommand({c \in CommandsOf({"invite"}) : c.user = CharName})
    \/ \E t \in Tasks : LookupStep(t) \/ CommandSend(t)

SpecLoop == Init /\ [][NextLoop]_vars

\* The engine with a server that sends identities, lookup results and group
\* announcements, and state queries.
NextQuery ==
    \/ ReadPacket(PacketsOf({"ClientName", "ClientLookup", "GroupAnnounce"}))
    \/ ReadError
    \/ IdentityStep
    \/ HandleGroupAnnounce
    \/ ReceiveQuery
    \/ HandleQuery

SpecQuery == Init /\ [][NextQuery]_vars

\* The engine with everything that writes the registry or the invites: a
\* server that sends the character list, the identity of the character (by
\* announcement or as a lookup result), its tells, group announcements and
\* invites, and tell commands to the character.
NextRegistry ==
    \/ ReadPacket(PacketsOf({"GroupAnnounce", "PrivgrpInvite"})
                    \cup {[type |-> "LoginCharlist", chars |-> <<<<1, CharName>>>>],
                          [type |-> "ClientName", id |-> 1, name |-> CharName],
                          [type |-> "ClientLookup", id |-> 1, name |-> CharName,
                           exists |-> TRUE]}
                    \cup {[type |-> "MsgPrivate", message |-> Message(1, Tell(1), x)] :
                             x \in Texts})
    \/ HandleLoginCharlist
    \/ HandleClientName
    \/ HandleClientLookupFound
    \/ ClientLookupPush
    \/ ClientLookupNotify
    \/ HandleGroupAnnounce
    \/ HandlePrivgrpInvite
    \/ HandleMsgPrivate
    \/ MsgPrivateCheck
    \/ MsgPrivatePush
    \/ SpawnCommand({c \in CommandsOf({"tell"}) : c.user = CharName})
    \/ \E t \in Tasks : LookupStep(t) \/ TellStep(t)

SpecRegistry == Init /\ [][NextRegistry]_vars

\* The engine with outgoing tells of both kinds: a server that sends the
\* character list and identities and lookup results for the character's name,
\* tell commands to that name and SendToChannel commands on Tell channels.
NextOutgoingTell ==
    \/ ReadPacket({p \in PacketsOf({"ClientName", "ClientLookup"}) : p.name = CharName}
                    \cup {[type |-> "LoginCharlist", chars |-> <<<<1, CharName>>>>]})
    \/ HandleLoginCharlist
    \/ IdentityStep
    \/ SpawnCommand({c \in CommandsOf({"tell"}) : c.user = CharName}
                      \cup {c \in CommandsOf({"message"}) : c.chan.tag = "Tell"})
    \/ \E t \in Tasks : LookupStep(t) \/ TellStep(t) \/ MessageStep(t)

SpecOutgoingTell == Init /\ [][NextOutgoingTell]_vars

\* ------------------------------------------------------------- the claims
\* The lookup requests for `name` handed to the socket so far.
NumLookupRequests(name) ==
    Cardinality({i \in 1..Len(outbound) :
        outbound[i].type = "ClientLookup" /\ outbound[i].name = name})

\* C1: as long as no lookup result for a name has been processed, the
\* resolve calls of that name have sent at most one lookup request for it.
C1_SingleRequest ==
    \A n \in Names : hist[n] = "none" => NumLookupRequests(n) <= 1

\* The loop's step that ends the handling of a lookup result for `name`: the
\* remove of the pending lookup and notify_waiters.
LookupResultStep(name) ==
    /\ lpc \in {"handle", "cl_notify"}
    /\ packet.type = "ClientLookup"
    /\ packet.name = name
    /\ lpc' = "select"

\* C2: no wake-up is lost. Once the loop has processed a lookup result for a
\* name, no resolve call of that name is left holding a wake signal (about to
\* suspend on it, or suspended on it): such a call took a signal that is no
\* longer installed, which no later event can fire, and never returns.
C2_NoLostWakeup ==
    [][\A n \in Names : LookupResultStep(n) =>
          \A t \in Tasks : tasks'[t].user = n => tasks'[t].pc \notin {"l_reg", "l_wait"}]_vars

\* The registry's entries that are Tell(id).
NumTells(id) == Cardinality({i \in 1..Len(channels) : channels[i] = Tell(id)})

\* C3: the registry holds at most one Tell channel per peer id.
C3_OneTellPerPeer == \A p \in Ids : NumTells(p) <= 1

\* The registry's entries that are a Group with this id.
NumGroups(gid) ==
    Cardinality({i \in 1..Len(channels) :
        channels[i].tag = "Group" /\ channels[i].id = gid})

\* C4: the registry holds at most one Group entry per group id.
C4_OneGroupPerId == \A g \in GroupIds : NumGroups(g) <= 1

\* C5: the identity cache is a bijection, and as long as the pairs the
\* identity events carried are distinct (no two share an id or a name), every
\* one of them is in the cache.
C5_CacheIsBijection ==
    /\ IsBijection(user_lookup)
    /\ IsBijection(delivered) => delivered \subseteq user_lookup

\* C5's case: two distinct pairs were delivered and both are cached.
C5_Witness ==
    /\ Cardinality(delivered) = 2
    /\ IsBijection(delivered)
    /\ user_lookup = delivered
    /\ lpc = "select"

\* C6: a not-found lookup result for a name removes its pending lookup,
\* releases every task suspended in a resolve of that name, and leaves the
\* identity cache and the registry as they were.
C6_NotFoundReleasesAll ==
    [][\A n \in Names :
          (/\ Handling("ClientLookup")
           /\ ~packet.exists
           /\ packet.name = n
           /\ lpc' = "select")
          => /\ pending_lookups'[n] = 0
             /\ \A t \in Tasks :
                   (tasks[t].user = n /\ tasks[t].pc = "l_wait")
                       => tasks'[t].pc = "l_recheck"
             /\ UNCHANGED <<user_lookup, channels>>]_vars

\* C7: no negative caching. A resolve of a name that starts after a not-found
\* result for it, alone (hist = "nf1": no other resolve of the name was under
\* way at the result or started since), finds no pending lookup, installs its
\* own, and sends a lookup request of its own.
C7_NoNegativeCaching ==
    [][\A t \in Tasks :
          (/\ tasks'[t].pc \in {"l_pend", "l_install", "l_send", "l_reg", "l_wait"}
           /\ hist'[tasks'[t].user] = "nf1")
          => /\ tasks'[t].pc = "l_pend" => pending_lookups'[tasks'[t].user] = 0
             /\ tasks'[t].pc \in {"l_send", "l_reg", "l_wait"}
                   => /\ tasks'[t].notify = t
                      /\ pending_lookups'[tasks'[t].user] = t
             /\ (tasks[t].pc = "l_send" /\ tasks'[t].pc = "l_reg")
                   => outbound' = Append(outbound,
                          [type |-> "ClientLookup", name |-> tasks[t].user])]_vars

\* C7's case: a resolve that started after a not-found result has installed
\* its pending lookup, sent its request and is suspended.
C7_Witness ==
    \E t \in Tasks :
        /\ tasks[t].pc = "l_wait"
        /\ hist[tasks[t].user] = "nf1"
        /\ tasks[t].notify = t
        /\ NumLookupRequests(tasks[t].user) >= 1

\* C8: a tell command whose name resolved to p, stamped with the current user
\* u of a logged-in session, emits its self-echo and has Tell(p) registered
\* before its packet is handed to the socket; in particular it gets that far.
C8_TellEchoBeforeSend ==
    \A t \in Tasks :
        (tasks[t].kind = "tell" /\ tasks[t].res # NoId /\ tasks[t].me \in Ids)
        => /\ tasks[t].pc # "panicked"
           /\ tasks[t].pc \in {"b_send", "done"}
                 => /\ \E i \in 1..Len(ui_updates) : ui_updates[i] = TellEcho(tasks[t])
                    /\ HasTell(channels, tasks[t].res)

\* Some registered Group with this id carries a name.
HasNamedGroup(chs, gid) ==
    \E i \in 1..Len(chs) :
        chs[i].tag = "Group" /\ chs[i].id = gid /\ chs[i].name # NoName

\* C9: whenever some registered announcement of a group id carried a name,
\* resolving a nameless Group of that id returns a name that a registered
\* Group of that id carries.
C9_GroupNameFromHistory ==
    \A g \in GroupIds :
        HasNamedGroup(channels, g)
        => /\ ChannelResolves(channels, user_lookup, Group(g, NoName))
           /\ \E i \in 1..Len(channels) :
                 /\ channels[i].tag = "Group"
                 /\ channels[i].id = g
                 /\ channels[i].name =
                        ResolvedChannelNew(channels, user_lookup, Group(g, NoName)).name

\* The character list holds the configured character name.
HasCharacter(chars) == \E i \in 1..Len(chars) : chars[i][2] = CharName

\* C10: the login flow. A seed makes the loop hand the socket a login request
\* with that seed and the configured credentials; a character list with the
\* configured name sets the current user to the id of an entry of that name
\* and hands the socket a select request for the same id; a character list
\* without it ends the loop by a panic, with no request and the current user
\* unchanged.
C10_LoginFlow ==
    [][/\ (Handling("LoginSeed") /\ lpc' # "handle")
           => outbound' = Append(outbound,
                  [type |-> "LoginRequest", user |-> UserName, pass |-> Password,
                   seed |-> packet.seed])
       /\ (Handling("LoginCharlist") /\ lpc' # "handle" /\ HasCharacter(packet.chars))
           => \E i \in 1..Len(packet.chars) :
                 /\ packet.chars[i][2] = CharName
                 /\ current_user' = packet.chars[i][1]
                 /\ outbound' = Append(outbound,
                        [type |-> "LoginSelect", id |-> packet.chars[i][1]])
                 /\ lpc' \in {"select", "failed"}
       /\ (Handling("LoginCharlist") /\ lpc' # "handle" /\ ~HasCharacter(packet.chars))
           => /\ lpc' = "panicked"
              /\ UNCHANGED <<outbound, current_user>>]_vars

\* C10's case: after a seed and a character list with the configured name the
\* login request and the select request for the current user are out.
C10_Witness ==
    /\ lpc = "select"
    /\ current_user \in Ids
    /\ Len(outbound) = 2
    /\ outbound[1].type = "LoginRequest"
    /\ outbound[2] = [type |-> "LoginSelect", id |-> current_user]

\* The packet the claim expects of a command of this kind on this id.
ExpectedPacket(kind, id) ==
    CASE kind = "invite" -> [type |-> "PrivgrpInvite", id |-> id]
      [] kind = "kick" -> [type |-> "PrivgrpKick", id |-> id]
      [] OTHER -> [type |-> "PrivgrpPart", channel |-> PrivateChannel(id)]

NumSent(p) == Cardinality({i \in 1..Len(outbound) : outbound[i] = p})

\* C11: invite, kick and leave. The packets handed to the socket, lookup
\* requests aside, are exactly one packet of the command's kind keyed by the
\* resolved id for every command that ended with an id; a command whose
\* resolve returned None sent none; and no UI update is emitted.
C11_CommandOutcome ==
    /\ ui_updates = <<>>
    /\ \A k \in {"invite", "kick", "leave"}, i \in Ids :
          NumSent(ExpectedPacket(k, i)) =
              Cardinality({t \in Tasks : /\ tasks[t].kind = k
                                         /\ tasks[t].pc = "done"
                                         /\ tasks[t].res = i})
    /\ \A j \in 1..Len(outbound) :
          \/ outbound[j].type = "ClientLookup"
          \/ \E k \in {"invite", "kick", "leave"}, i \in Ids :
                outbound[j] = ExpectedPacket(k, i)

\* C11's case: one command ended on None after a not-found result, another
\* one, a leave, ended with an id and its part packet is out.
C11_Witness ==
    \E t \in Tasks, u \in Tasks :
        /\ tasks[t].pc = "done" /\ tasks[t].res = NoId
        /\ hist[tasks[t].user] # "none"
        /\ tasks[u].pc = "done" /\ tasks[u].kind = "leave" /\ tasks[u].res \in Ids
        /\ NumSent(ExpectedPacket("leave", tasks[u].res)) = 1

\* C12: a tell whose name does not resolve. While the tell's task is in its
\* resolve it emits no UI update, leaves the identity cache and the registry
\* alone and hands the socket nothing but its lookup request; once woken with
\* the name still unknown it ends, with nothing sent and nothing changed; and
\* the handling of the not-found result itself sends nothing, emits nothing
\* and leaves the cache and the registry as they were.
C12_UnresolvedTellNoEffect ==
    [][/\ \A t \in Tasks :
             (tasks[t].kind = "tell" /\ tasks'[t] # tasks[t])
             => /\ (tasks[t].pc = "l_recheck" /\ ~HasRight(user_lookup, tasks[t].user))
                   => /\ tasks'[t].pc = "done"
                      /\ UNCHANGED <<outbound, ui_updates, user_lookup, channels>>
                /\ tasks[t].pc \in {"start", "l_pend", "l_install", "l_send", "l_reg", "l_wait"}
                   => /\ UNCHANGED <<ui_updates, user_lookup, channels>>
                      /\ \/ outbound' = outbound
                         \/ outbound' = Append(outbound,
                                [type |-> "ClientLookup", name |-> tasks[t].user])
       /\ (Handling("ClientLookup") /\ ~packet.exists /\ lpc' = "select")
             => UNCHANGED <<outbound, ui_updates, user_lookup, channels>>]_vars

\* C12's case: a tell ended on None after a not-found result for its name.
C12_Witness ==
    \E t \in Tasks :
        /\ tasks[t].kind = "tell"
        /\ tasks[t].pc = "done"
        /\ tasks[t].res = NoId
        /\ hist[tasks[t].user] \in {"nf0", "nf1", "nfMany"}

\* C13: a failing send is swallowed, whatever the packet: it never ends the
\* loop and never aborts the command task that issued it.
C13_SendFailureSwallowed ==
    /\ lpc # "failed"
    /\ \A t \in Tasks : tasks[t].pc # "send_panicked"

\* The loop is handling a message whose sender id is not in the identity cache.
UnknownSender ==
    /\ lpc = "handle"
    /\ packet.type \in {"MsgVicinity", "GroupMessage", "MsgPrivate", "PrivgrpMessage"}
    /\ packet.message.sender # NoSender
    /\ ~HasLeft(user_lookup, packet.message.sender)

\* C14: an inbound message of any of the four kinds whose sender id is not in
\* the identity cache ends the loop by a panic, with no UI update and no
\* change of the shared state; and once the loop has panicked nothing more is
\* read or handled.
C14_UnknownSenderIsFatal ==
    [][/\ (UnknownSender /\ lpc' # "handle")
           => /\ lpc' = "panicked"
              /\ UNCHANGED <<ui_updates, shared, nread>>
       /\ lpc = "panicked"
           => UNCHANGED <<lpc, packet, nread, ui_updates, shared, replies>>]_vars

\* C14's case: after a message that was shown, the loop has panicked on a
\* vicinity or private-channel message whose sender is not cached.
C14_Witness ==
    /\ lpc = "panicked"
    /\ packet.type \in {"MsgVicinity", "PrivgrpMessage"}
    /\ packet.message.sender # NoSender
    /\ ~HasLeft(user_lookup, packet.message.sender)
    /\ Len(ui_updates) = 1

\* Some SendToChannel command on the Vicinity pseudo-channel has panicked.
VicinitySendPanicked ==
    \E t \in Tasks :
        /\ tasks[t].kind = "message"
        /\ tasks[t].chan.tag = "Vicinity"
        /\ tasks[t].pc = "panicked"

\* C15: sending to Vicinity is fatal. The command's task hands no packet to
\* the socket, and once it has panicked the loop is over: no packet is read or
\* handled, no command is spawned and no query is answered any more.
C15_VicinitySendIsFatal ==
    [][/\ \A t \in Tasks :
             (tasks[t].chan.tag = "Vicinity" /\ tasks'[t] # tasks[t])
                 => UNCHANGED outbound
       /\ VicinitySendPanicked
             => /\ UNCHANGED <<lpc, packet, nread, replies>>
                /\ \A u \in Tasks : tasks[u].pc = "idle" => tasks'[u].pc = "idle"]_vars

\* Some command task is suspended in resolve, its lookup result not delivered.
SomeTaskSuspended == \E t \in Tasks : tasks[t].pc = "l_wait"

\* C16: the loop never runs a command inline. Handling a command request is
\* one step that only spawns the task: the loop is back at its select, and
\* neither the shared state nor the socket nor the UI is touched. And with
\* command tasks suspended in resolve the loop, at its select, can take a
\* packet of any kind, a further command and a state query (as long as the
\* run has some left).
C16_LoopNeverWaits ==
    /\ [][\A t \in Tasks :
             (tasks[t].pc = "idle" /\ tasks'[t].pc # "idle")
                 => /\ lpc' = "select"
                    /\ UNCHANGED <<shared, ui_updates, outbound, replies>>]_vars
    /\ [](SomeTaskSuspended
             => /\ lpc \in {"select", "handle", "cl_push", "cl_notify", "query",
                            "ended", "panicked"}
                /\ lpc = "select"
                      => /\ nread < MaxPackets
                            => \A p \in Packets :
                                  ENABLED (ReadPacket({p}))
                         /\ (\E t \in Tasks : tasks[t].pc = "idle")
                            => \A c \in Commands : ENABLED (SpawnCommand({c}))
                         /\ Len(replies) < MaxQueries => ENABLED ReceiveQuery)

\* C16's case: with every command task suspended in resolve, the loop has
\* answered a query and is handling a packet.
C16_Witness ==
    /\ \A t \in Tasks : tasks[t].pc = "l_wait"
    /\ Len(replies) >= 1
    /\ lpc = "handle"

\* C17: shared state has a single writer. Every step that changes the identity
\* cache, the registry or the invite collection is a step of the loop: no
\* command task moves in it.
C17_SingleWriter ==
    [][(channels' # channels \/ user_lookup' # user_lookup
           \/ past_invites' # past_invites)
          => UNCHANGED tasks]_vars

\* C18: a GetChannels query is always answered: the step that handles it
\* sends a list with one descriptor per channel of the registry, in the
\* registry's order, brings the loop back to its select and changes no shared
\* state.
C18_QueryAnswered ==
    [][(lpc = "query" /\ lpc' # "query")
          => /\ lpc' = "select"
             /\ Len(replies') = Len(replies) + 1
             /\ Len(replies'[Len(replies')]) = Len(channels)
             /\ \A i \in 1..Len(channels) :
                   /\ replies'[Len(replies')][i].id = channels[i].id
                   /\ replies'[Len(replies')][i].type = channels[i].tag
             /\ UNCHANGED shared]_vars

\* C19: an identity record is never deleted: a pair of the identity cache is
\* in the cache after every step.
C19_IdentityNeverDeleted ==
    [][\A p \in user_lookup : p \in user_lookup']_vars

\* The sequence s is a prefix of the sequence t.
IsPrefix(s, t) == Len(s) <= Len(t) /\ SubSeq(t, 1, Len(s)) = s

\* C20: the registry is append-only: in every step the registry before the
\* step is a prefix of the registry after it; and an invite adds its channel to
\* the invite collection and nothing to the registry.
C20_RegistryAppendOnly ==
    [][/\ IsPrefix(channels, channels')
       /\ (Handling("PrivgrpInvite") /\ lpc' # "handle")
             => /\ channels' = channels
                /\ past_invites' = Append(past_invites, packet.channel)]_vars

\* C20's case: the registry has grown to two channels and an invite was
\* received.
C20_Witness ==
    /\ Len(channels) >= 2
    /\ Len(past_invites) = 1
    /\ lpc = "select"

\* C21: write-then-notify. When the loop removes the pending lookup of a found
\* result (id, n) and wakes its waiters, the pair (id, n) is in the identity
\* cache already, so every waiter woken by the step would read id for n; and a
\* woken waiter whose name had a found result returns an id that an identity
\* event carried for the name, as long as no two identity events conflict (no
\* two delivered pairs share an id or a name).
C21_WriteThenNotify ==
    [][/\ (lpc = "cl_notify" /\ lpc' = "select")
           => /\ <<packet.id, packet.name>> \in user_lookup
              /\ UNCHANGED user_lookup
              /\ pending_lookups'[packet.name] = 0
              /\ \A t \in Tasks :
                    (tasks[t].pc = "l_wait" /\ tasks'[t].pc = "l_recheck")
                        => RightId(user_lookup', tasks'[t].user) = packet.id
       /\ \A t \in Tasks :
             (/\ tasks[t].pc = "l_recheck"
              /\ tasks'[t].pc # "l_recheck"
              /\ hist[tasks[t].user] = "found"
              /\ IsBijection(delivered))
             => /\ tasks'[t].res \in Ids
                /\ <<tasks'[t].res, tasks[t].user>> \in delivered
                /\ tasks'[t].pc = "b_send"]_vars

\* C21's case: a waiter was woken by a found result for its name and is about
\* to read the cache, which holds the name.
C21_Witness ==
    \E t \in Tasks :
        /\ tasks[t].pc = "l_recheck"
        /\ hist[tasks[t].user] = "found"
        /\ HasRight(user_lookup, tasks[t].user)
        /\ pending_lookups[tasks[t].user] = 0
        /\ lpc = "select"

\* C22: register-before-issue. A resolve call that is about to send its
\* lookup request has installed its pending lookup; and the check for an
\* entry and the installation are atomic: no two resolve calls of one name
\* have both found no entry with neither having installed one yet.
C22_RegisterBeforeIssue ==
    /\ \A t \in Tasks : tasks[t].pc = "l_send" => tasks[t].notify = t
    /\ \A t \in Tasks, u \in Tasks :
          (t # u /\ tasks[t].user = tasks[u].user)
              => ~(tasks[t].pc = "l_install" /\ tasks[u].pc = "l_install")

\* The outbound packets that are not lookup requests.
NumActions == Cardinality({i \in 1..Len(outbound) : outbound[i].type # "ClientLookup"})

\* C23: no timeout. A resolve call suspended on its wake signal leaves its
\* suspension only in the step that ends the handling of a lookup result for
\* its name, and a pending lookup is removed only in such a step; so with no
\* lookup result for the name a suspended call stays suspended, whatever else
\* the server sends, with a pending lookup of the name installed and no
\* id in hand; and a step in which it stays suspended is none of its own, so
\* its command hands nothing to the socket.
C23_NoTimeout ==
    /\ [][\A t \in Tasks :
             /\ (tasks[t].pc = "l_wait" /\ tasks'[t].pc # "l_wait")
                   => LookupResultStep(tasks[t].user)
             /\ (tasks[t].pc = "l_wait" /\ tasks'[t].pc = "l_wait")
                   => tasks'[t] = tasks[t]]_vars
    /\ [][\A n \in Names :
             (pending_lookups[n] # 0 /\ pending_lookups'[n] = 0)
                 => LookupResultStep(n)]_vars
    /\ [](\A t \in Tasks :
             (tasks[t].pc = "l_wait" /\ hist[tasks[t].user] = "none")
                 => /\ pending_lookups[tasks[t].user] # 0
                    /\ tasks[t].res = NoId)
    /\ []((\A t \in Tasks : tasks[t].pc \in {"idle", "start", "l_pend", "l_install",
                                               "l_send", "l_reg", "l_wait"})
             => NumActions = 0)

\* C23's case: the server has sent all it had, among it the identity of the
\* name but no lookup result for it, and the resolve call is still suspended.
C23_Witness ==
    \E t \in Tasks :
        /\ tasks[t].pc = "l_wait"
        /\ hist[tasks[t].user] = "none"
        /\ HasRight(user_lookup, tasks[t].user)
        /\ nread = MaxPackets
        /\ lpc = "select"

\* C24: the handling of a found lookup result (id, n) appends Tell(id) to the
\* registry whatever the state: the step between the write of the cache and
\* the notify appends it, registered already or not, pending lookup or not,
\* whatever command asked; the write before it and the notify after it leave
\* the registry alone.
C24_FoundResultAppendsTell ==
    [][/\ (lpc = "cl_push" /\ lpc' # "cl_push")
           => /\ lpc' = "cl_notify"
              /\ channels' = Append(channels, Tell(packet.id))
       /\ (Handling("ClientLookup") /\ packet.exists /\ lpc' # "handle")
           => lpc' = "cl_push" /\ UNCHANGED channels
       /\ (lpc = "cl_notify" /\ lpc' # "cl_notify")
           => /\ UNCHANGED channels
              /\ HasTell(channels, packet.id)]_vars

\* C24's case: two found results for one id were handled, the second with no
\* pending lookup left, and the registry holds Tell(id) twice, after a kick.
C24_Witness ==
    \E i \in Ids :
        /\ NumTells(i) = 2
        /\ lpc = "select"
        /\ \E t \in Tasks : tasks[t].kind = "kick" /\ tasks[t].res = i

\* The task is an outgoing tell about to resolve its sender, the current user
\* it loaded, whose id is not in the identity cache.
OwnIdUnmapped(t) ==
    /\ tasks[t].pc \in {"b_sender", "m_sender"}
    /\ ~HasLeft(user_lookup, tasks[t].me)

\* C25: an outgoing tell needs the current user's own id in the identity
\* cache. A send_tell or a send_message to a Tell that resolves its sender
\* with the id unmapped panics in that step, with no UI update, no channel
\* registered and no packet handed to the socket; a panicked task does nothing
\* more; and the loop, which the step leaves where it was, still takes packets
\* with such a task around.
C25_OwnIdNeeded ==
    /\ [][\A t \in Tasks :
             /\ (OwnIdUnmapped(t) /\ tasks'[t] # tasks[t])
                   => /\ tasks'[t].pc = "panicked"
                      /\ UNCHANGED <<ui_updates, channels, outbound, lpc, packet, nread>>
             /\ tasks[t].pc = "panicked" => tasks'[t] = tasks[t]]_vars
    /\ []((/\ \E t \in Tasks : tasks[t].pc = "panicked"
            /\ lpc = "select"
            /\ nread < MaxPackets)
             => \A p \in Packets : ENABLED (ReadPacket({p})))

\* C25's case: a send_tell and a send_message to a Tell have both panicked on
\* their sender, nothing was shown or registered, and the loop is handling a
\* packet.
C25_Witness ==
    \E t \in Tasks, u \in Tasks :
        /\ tasks[t].kind = "tell" /\ tasks[t].pc = "panicked"
        /\ tasks[u].kind = "message" /\ tasks[u].pc = "panicked"
        /\ tasks[u].target.tag = "Tell" /\ tasks[u].sender = NoName
        /\ ui_updates = <<>>
        /\ ~(\E i \in 1..Len(outbound) : outbound[i].type = "MsgPrivate")
        /\ lpc = "handle"

\* C26: provided the identity events delivered so far carry distinct pairs (no
\* id with two names, no name with two ids), every Tell(p) entry of the
\* registry has p mapped in the identity cache, so that ResolvedChannel::new
\* succeeds on it.
C26_TellEntriesMapped ==
    IsBijection(delivered) =>
        \A i \in 1..Len(channels) :
            channels[i].tag = "Tell" =>
                /\ HasLeft(user_lookup, channels[i].id)
                /\ ChannelResolves(channels, user_lookup, channels[i])

\* C26's case: the registry holds the Tell channels of two peers, one of them
\* the target of a finished send_tell, and the identity events were distinct
\* pairs.
C26_Witness ==
    /\ IsBijection(delivered)
    /\ Cardinality(delivered) = 2
    /\ \A p \in Ids : HasTell(channels, p)
    /\ \E t \in Tasks : tasks[t].kind = "tell" /\ tasks[t].pc = "done"

\* C27: lookups of different names are independent. While the loop handles a
\* ClientLookup for name a, every step of it leaves the pending lookup of every
\* other name b as it was and leaves every task of b where it was; the only
\* tasks it moves were suspended on a's installed signal, and its last step
\* leaves a without a pending lookup.
C27_LookupsIndependent ==
    [][\A a \in Names :
          (/\ lpc \in {"handle", "cl_push", "cl_notify"}
           /\ packet.type = "ClientLookup"
           /\ packet.name = a
           /\ lpc' # lpc)
          => /\ \A b \in Names \ {a} :
                   /\ pending_lookups'[b] = pending_lookups[b]
                   /\ \A t \in Tasks : tasks[t].user = b => tasks'[t] = tasks[t]
             /\ \A t \in Tasks : tasks'[t] # tasks[t] =>
                   /\ tasks[t].user = a
                   /\ tasks[t].pc = "l_wait"
                   /\ tasks[t].notify = pending_lookups[a]
                   /\ tasks'[t].pc = "l_recheck"
             /\ LookupResultStep(a) => pending_lookups'[a] = 0]_vars

\* C27's case: a lookup result has released a task of one name, and a task of
\* the other name is still suspended on its installed signal.
C27_Witness ==
    \E t \in Tasks, u \in Tasks :
        /\ tasks[t].user # tasks[u].user
        /\ tasks[t].pc = "l_recheck"
        /\ pending_lookups[tasks[t].user] = 0
        /\ tasks[u].pc = "l_wait"
        /\ tasks[u].notify # 0
        /\ pending_lookups[tasks[u].user] = tasks[u].notify
        /\ lpc = "select"
====
